---- MODULE Spec2Model ----
(***************************************************************************)
(* Model of ga_opt.py: a multi-objective genetic optimiser (DEAP, NSGA-II) *)
(* that sizes a class-AB CMOS stage with LTspice as the fitness oracle.    *)
(*                                                                         *)
(* Units.  Python floats are modelled on an integer grid: Wn and Wp in     *)
(* micrometres, Vbias in tenths of a volt, fitness components (dB, Hz, W)  *)
(* as integers; the non-finite floats are kept apart (Float records).      *)
(* Text is a sequence of one-character strings, so that str.lower(), the   *)
(* substring tests and the regular expressions are computed, not assumed.  *)
(***************************************************************************)
EXTENDS Integers, Sequences, FiniteSets, TLC

\* ------------------------------------------------------------------------
\* Bounds of the model
\* ------------------------------------------------------------------------
\* longest log text, in lines, that the evaluation specification feeds in
MaxLines == 2
\* ngen: generations after generation 0
MaxGen == 1
\* chance events explored in one run: crossovers made, mutations made and
\* simulator runs that fail
MaxEvents == 1

\* ------------------------------------------------------------------------
\* Search space (ga_opt.py 34-36)
\* ------------------------------------------------------------------------
WN_MIN == 3
WN_MAX == 20
WP_MIN == 5
WP_MAX == 50
V_MIN == 10
V_MAX == 50

\* the penalty vector returned for every failed evaluation
SENTINEL == <<-360, 0, 1000>>

\* FitnessMulti weights: maximise gain_db, maximise ugbw, minimise power
weights == <<1, 1, -1>>

\* ------------------------------------------------------------------------
\* Text helpers: str.lower(), `in`, character classes of the patterns
\* ------------------------------------------------------------------------
UpperCase ==
  <<"A", "B", "C", "D", "E", "F", "G", "H", "I", "J", "K", "L", "M",
    "N", "O", "P", "Q", "R", "S", "T", "U", "V", "W", "X", "Y", "Z">>

LowerCase ==
  <<"a", "b", "c", "d", "e", "f", "g", "h", "i", "j", "k", "l", "m",
    "n", "o", "p", "q", "r", "s", "t", "u", "v", "w", "x", "y", "z">>

UpperSet == {UpperCase[i] : i \in 1..26}

ToLower == [c \in UpperSet |-> LowerCase[CHOOSE i \in 1..26 : UpperCase[i] = c]]

LowerChar(c) == IF c \in UpperSet THEN ToLower[c] ELSE c

\* str.lower()
lower(s) == [i \in 1..Len(s) |-> LowerChar(s[i])]

\* needle in hay
Contains(needle, hay) ==
  \E i \in 1..(Len(hay) - Len(needle) + 1) :
    \A k \in 1..Len(needle) : hay[i + k - 1] = needle[k]

Digits == {"0", "1", "2", "3", "4", "5", "6", "7", "8", "9"}

\* \s of the patterns, restricted to the whitespace the logs contain
WhiteSpace == {" ", "\n", "\t", "\r"}

\* [-+0-9.eE]
NumClass == Digits \cup {"-", "+", ".", "e", "E"}

\* [-\d.eE]
IddClass == Digits \cup {"-", ".", "e", "E"}

SetMin(S) == CHOOSE m \in S : \A n \in S : m <= n

\* first index >= i of txt whose character is not in cls (Len+1 if none)
RunEnd(txt, i, cls) ==
  LET stop == {j \in i..Len(txt) : txt[j] \notin cls}
  IN  IF stop = {} THEN Len(txt) + 1 ELSE SetMin(stop)

\* a literal of a re.I pattern matches txt at index i
MatchLit(txt, i, lit) ==
  /\ i >= 1
  /\ i + Len(lit) - 1 <= Len(txt)
  /\ \A k \in 1..Len(lit) : LowerChar(txt[i + k - 1]) = LowerChar(lit[k])

\* ------------------------------------------------------------------------
\* float(): the decimal literals that the character classes can capture
\* ------------------------------------------------------------------------
Absent == [k |-> "absent", v |-> 0]
Fin(n) == [k |-> "fin", v |-> n]
PosInf == [k |-> "inf", v |-> 1]
NegInf == [k |-> "inf", v |-> -1]
ValueError == [k |-> "ValueError", v |-> 0]

DigitVal(c) ==
  CASE c = "0" -> 0 [] c = "1" -> 1 [] c = "2" -> 2 [] c = "3" -> 3
    [] c = "4" -> 4 [] c = "5" -> 5 [] c = "6" -> 6 [] c = "7" -> 7
    [] c = "8" -> 8 [] c = "9" -> 9

\* float(s) reads s left to right; what the scanner has read so far: at is
\* the part of the literal it is in, mant the mantissa digits as an integer,
\* frac the number of digits after the point, ex the exponent digits
FloatStart ==
  [at |-> "start", neg |-> FALSE, mant |-> 0, frac |-> 0, eneg |-> FALSE, ex |-> 0]

FloatStep(st, ch) ==
  CASE st.at = "start" /\ ch \in {"-", "+"} ->
         [st EXCEPT !.at = "sign", !.neg = (ch = "-")]
    [] st.at \in {"start", "sign", "int"} /\ ch \in Digits ->
         [st EXCEPT !.at = "int", !.mant = 10 * @ + DigitVal(ch)]
    [] st.at \in {"start", "sign"} /\ ch = "." ->
         [st EXCEPT !.at = "point"]
    [] st.at = "int" /\ ch = "." ->
         [st EXCEPT !.at = "frac"]
    [] st.at \in {"point", "frac"} /\ ch \in Digits ->
         [st EXCEPT !.at = "frac", !.mant = 10 * @ + DigitVal(ch), !.frac = @ + 1]
    [] st.at \in {"int", "frac"} /\ ch \in {"e", "E"} ->
         [st EXCEPT !.at = "e"]
    [] st.at = "e" /\ ch \in {"-", "+"} ->
         [st EXCEPT !.at = "esign", !.eneg = (ch = "-")]
    [] st.at \in {"e", "esign", "exp"} /\ ch \in Digits ->
         [st EXCEPT !.at = "exp", !.ex = 10 * @ + DigitVal(ch)]
    [] OTHER ->
         [st EXCEPT !.at = "bad"]

RECURSIVE FloatScan(_, _, _)
FloatScan(s, i, st) ==
  IF i > Len(s) THEN st ELSE FloatScan(s, i + 1, FloatStep(st, s[i]))

RECURSIVE Pow10(_)
Pow10(n) == IF n = 0 THEN 1 ELSE 10 * Pow10(n - 1)

\* sg * mant * 10^ex as a float: beyond the double range (decimal exponent
\* above 308) it is +-inf; a fractional value is cut to the integer grid
FloatScale(sg, mant, ex) ==
  IF mant = 0 THEN Fin(0)
  ELSE IF ex > 308 THEN (IF sg = 1 THEN PosInf ELSE NegInf)
  ELSE IF ex >= 0 THEN Fin(sg * mant * Pow10(ex))
  ELSE IF -ex > 9 THEN Fin(0)
  ELSE Fin(sg * (mant \div Pow10(-ex)))

\* the literal is complete with at least one mantissa digit and, after an e,
\* at least one exponent digit; anything else raises ValueError
FloatValue(st) ==
  IF st.at \notin {"int", "frac", "exp"} THEN ValueError
  ELSE FloatScale(IF st.neg THEN -1 ELSE 1, st.mant,
                  (IF st.eneg THEN -st.ex ELSE st.ex) - st.frac)

\* float(s) for s over NumClass: [sign] digits [. digits] [e [sign] digits]
float(s) == FloatValue(FloatScan(s, 1, FloatStart))

\* ------------------------------------------------------------------------
\* MEAS_RE and FATAL_MARKERS (ga_opt.py 102-115)
\* ------------------------------------------------------------------------
\* "gain_db:"
LitGainName == <<"g", "a", "i", "n", "_", "d", "b", ":">>

\* "MAX(db(v(out)/v(in)))=("
LitGainExpr ==
  <<"M", "A", "X", "(", "d", "b", "(", "v", "(", "o", "u", "t", ")", "/",
    "v", "(", "i", "n", ")", ")", ")", "=", "(">>

LitFc == <<"f", "c">>
LitIdd == <<"I", "d", "d">>
LitEq == <<"=">>

NoMatch == <<>>

\* the capture group ([cls]+) at c: the longest run of cls there, NoMatch
\* when it is empty
GroupAt(txt, c, cls) == SubSeq(txt, c, RunEnd(txt, c, cls) - 1)

\* MAX\(db\(v\(out\)/v\(in\)\)\)=\(([-+0-9.eE]+)   at b
GainExprAt(txt, b) ==
  IF MatchLit(txt, b, LitGainExpr)
    THEN GroupAt(txt, b + Len(LitGainExpr), NumClass) ELSE NoMatch

\* gain_db:\s*MAX\(db\(v\(out\)/v\(in\)\)\)=\(([-+0-9.eE]+)   matched at i
GainGroupAt(txt, i) ==
  IF MatchLit(txt, i, LitGainName)
    THEN GainExprAt(txt, RunEnd(txt, i + Len(LitGainName), WhiteSpace)) ELSE NoMatch

\* =\s*(cls+)   at b
AssignEqAt(txt, b, cls) ==
  IF MatchLit(txt, b, LitEq)
    THEN GroupAt(txt, RunEnd(txt, b + 1, WhiteSpace), cls) ELSE NoMatch

\* name\s*=\s*(cls+)   matched at i
AssignGroupAt(txt, i, name, cls) ==
  IF MatchLit(txt, i, name)
    THEN AssignEqAt(txt, RunEnd(txt, i + Len(name), WhiteSpace), cls) ELSE NoMatch

\* group 1 of the pattern of that name, matched at i
PatternAt(name, txt, i) ==
  CASE name = "GAIN_DB" -> GainGroupAt(txt, i)
    [] name = "FC"      -> AssignGroupAt(txt, i, LitFc, NumClass)
    [] name = "IDD"     -> AssignGroupAt(txt, i, LitIdd, IddClass)

\* the leftmost of the match positions
Leftmost(name, txt, hits) ==
  IF hits = {} THEN NoMatch ELSE PatternAt(name, txt, SetMin(hits))

\* pattern.search(txt).group(1): the leftmost match, or NoMatch
MEAS_RE(name, txt) ==
  Leftmost(name, txt, {i \in 1..Len(txt) : PatternAt(name, txt, i) # NoMatch})

FATAL_MARKERS ==
  << <<"F", "a", "t", "a", "l", " ", "E", "r", "r", "o", "r">>,
     <<"F", "a", "i", "l", "e", "d", " ", "t", "o", " ", "f", "i", "n", "d",
       " ", "D", "C", " ", "o", "p", "e", "r", "a", "t", "i", "n", "g", " ",
       "p", "o", "i", "n", "t">>,
     <<"G", "m", "i", "n", " ", "s", "t", "e", "p", "p", "i", "n", "g", " ",
       "f", "a", "i", "l", "e", "d">>,
     <<"C", "o", "u", "l", "d", " ", "n", "o", "t", " ", "c", "o", "n", "v",
       "e", "r", "g", "e", " ", "t", "o", " ", "D", "C">>,
     <<"e", "f", "f", "e", "c", "t", "i", "v", "e", " ", "c", "h", "a", "n",
       "n", "e", "l", " ", "l", "e", "n", "g", "t", "h", " ", "l", "e", "s",
       "s", " ", "t", "h", "a", "n", " ", "z", "e", "r", "o">>,
     <<"U", "n", "k", "n", "o", "w", "n", " ", "m", "o", "d", "e", "l">>,
     <<"C", "a", "n", "'", "t", " ", "o", "p", "e", "n">> >>

\* "Log file not created"
ReasonNoLog ==
  <<"L", "o", "g", " ", "f", "i", "l", "e", " ", "n", "o", "t", " ",
    "c", "r", "e", "a", "t", "e", "d">>

\* "GAIN_DB measurement FAILED"
ReasonGainFailed ==
  <<"G", "A", "I", "N", "_", "D", "B", " ", "m", "e", "a", "s", "u", "r",
    "e", "m", "e", "n", "t", " ", "F", "A", "I", "L", "E", "D">>

\* the needle of the FAILED test, as written in the source
NeedleGainFailed ==
  <<"g", "a", "i", "n", "_", "d", "b", ":", " ", "F", "A", "I", "L", "E", "D">>

\* ------------------------------------------------------------------------
\* run_ltspice, parse_log, fitness_eval (ga_opt.py 117-216)
\* ------------------------------------------------------------------------
\* What the simulator process does when it is started: proc is how
\* subprocess.run ends ("exit", "timeout", "notfound"), log whether the .log
\* file exists afterwards, txt the text of that file.
run_ltspice(sim) ==
  [status |-> CASE sim.proc = "timeout"  -> "TIMEOUT"
                [] sim.proc = "notfound" -> "NOT_FOUND"
                [] OTHER -> IF sim.log THEN "OK" ELSE "RC",
   log    |-> sim.log,
   txt    |-> sim.txt]

\* the marker search written as `m in txt`, without .lower() on either side
FirstFatalExact(txt) ==
  LET hits == {m \in 1..Len(FATAL_MARKERS) : Contains(FATAL_MARKERS[m], txt)}
  IN  IF hits = {} THEN 0 ELSE SetMin(hits)

\* index of the first marker of FATAL_MARKERS found in txt, 0 if none
MarkersLower == [m \in 1..Len(FATAL_MARKERS) |-> lower(FATAL_MARKERS[m])]

FirstFatal(txt) ==
  LET low  == lower(txt)
      hits == {m \in 1..Len(FATAL_MARKERS) : Contains(MarkersLower[m], low)}
  IN  IF hits = {} THEN 0 ELSE SetMin(hits)

\* the "gain_db: FAILED" test of parse_log
GainFailedFlag(txt) == Contains(NeedleGainFailed, lower(txt))

Parsed(ok, reason, g, f, i) ==
  [exc |-> FALSE, ok |-> ok, reason |-> reason, gain_db |-> g, fc |-> f, idd |-> i]

\* parse_log raised (float() on a captured group that is no number)
ParseRaised ==
  [exc |-> TRUE, ok |-> FALSE, reason |-> <<>>,
   gain_db |-> Absent, fc |-> Absent, idd |-> Absent]

\* float(m.group(1)) where the pattern matched
FloatOf(grp) == IF grp = NoMatch THEN Absent ELSE float(grp)

\* lines 150-170 once the three groups are converted: a ValueError of the
\* gain or of the Idd conversion leaves parse_log, one of the fc conversion
\* is swallowed
Measured(txt, gain, fc, idd) ==
  IF gain = ValueError THEN ParseRaised
  ELSE IF idd = ValueError THEN ParseRaised
  ELSE IF GainFailedFlag(txt)
    THEN Parsed(FALSE, ReasonGainFailed, Absent, Absent, Absent)
  ELSE Parsed(TRUE, <<>>, gain, IF fc = ValueError THEN Absent ELSE fc, idd)

\* lines 145-170: fatal is the index of the first marker found, 0 if none
Scanned(txt, fatal) ==
  IF fatal # 0 THEN Parsed(FALSE, FATAL_MARKERS[fatal], Absent, Absent, Absent)
  ELSE Measured(txt, FloatOf(MEAS_RE("GAIN_DB", txt)), FloatOf(MEAS_RE("FC", txt)),
                FloatOf(MEAS_RE("IDD", txt)))

parse_log(exists, txt) ==
  IF ~exists THEN Parsed(FALSE, ReasonNoLog, Absent, Absent, Absent)
  ELSE Scanned(txt, FirstFatal(txt))

\* the bounds test with the widths only, Vbias left unchecked
InBoundsWidths(ind) ==
  /\ WN_MIN <= ind[1] /\ ind[1] <= WN_MAX
  /\ WP_MIN <= ind[2] /\ ind[2] <= WP_MAX

\* the bounds test that opens fitness_eval
InBounds(ind) ==
  /\ WN_MIN <= ind[1] /\ ind[1] <= WN_MAX
  /\ WP_MIN <= ind[2] /\ ind[2] <= WP_MAX
  /\ V_MIN <= ind[3] /\ ind[3] <= V_MAX

\* parsed.get(key, default) followed by float()
GetOr(x, default) == IF x = Absent THEN Fin(default) ELSE x

\* power from |idd|: capped when idd > 1e3, else 5.0 * idd
PowerOf(idd) ==
  LET mag == IF idd.k = "inf" THEN PosInf
             ELSE Fin(IF idd.v < 0 THEN -idd.v ELSE idd.v)
  IN  IF mag.k = "inf" \/ mag.v > 1000 THEN 1000 ELSE 5 * mag.v

\* the result of fitness_eval: fit is the returned vector, ran whether
\* run_ltspice was called, exc whether an exception left the function
Returned(fit, ran) == [exc |-> FALSE, fit |-> fit, ran |-> ran]
Raised == [exc |-> TRUE, fit |-> <<>>, ran |-> TRUE]

\* lines 205-216 without the closing test `gain_db == -360.0`
Vector_no_gain_test(g0, u0, power) ==
  Returned(<<IF g0.k = "fin" THEN g0.v ELSE -360,
             IF u0.k = "fin" THEN u0.v ELSE 0, power>>, TRUE)

\* lines 205-216: non-finite values replaced, the gain test, the vector
Vector(g0, u0, power) ==
  IF g0.k # "fin" \/ g0.v = -360 THEN Returned(SENTINEL, TRUE)
  ELSE Returned(<<g0.v, IF u0.k = "fin" THEN u0.v ELSE 0, power>>, TRUE)

\* lines 189-216: what fitness_eval makes of parse_log's answer
Processed(parsed) ==
  IF parsed.exc THEN Raised
  ELSE IF ~parsed.ok THEN Returned(SENTINEL, TRUE)
  ELSE Vector(GetOr(parsed.gain_db, -360), GetOr(parsed.fc, 0),
              PowerOf(GetOr(parsed.idd, 1000000000)))

\* lines 183-216: what fitness_eval makes of run_ltspice's answer
Ran(run) ==
  IF run.status # "OK" \/ ~run.log THEN Returned(SENTINEL, TRUE)
  ELSE Processed(parse_log(run.log, run.txt))

fitness_eval(ind, sim) ==
  IF ~InBounds(ind) THEN Returned(SENTINEL, FALSE) ELSE Ran(run_ltspice(sim))

\* ------------------------------------------------------------------------
\* DEAP: Fitness.dominates, sortNondominated, assignCrowdingDist, selNSGA2
\* (registered as toolbox.select, ga_opt.py 228)
\* ------------------------------------------------------------------------
Objectives == 1..3

\* Fitness.wvalues
wvalues(f) == [i \in Objectives |-> weights[i] * f[i]]

\* Fitness.dominates
dominates(f, g) ==
  /\ \A i \in Objectives : wvalues(f)[i] >= wvalues(g)[i]
  /\ \E i \in Objectives : wvalues(f)[i] > wvalues(g)[i]

\* the elements of a set of integers, in increasing order
RECURSIVE Ascending(_)
Ascending(S) ==
  IF S = {} THEN <<>>
  ELSE LET m == SetMin(S) IN <<m>> \o Ascending(S \ {m})

RECURSIVE Flatten(_)
Flatten(ss) == IF ss = <<>> THEN <<>> ELSE Head(ss) \o Flatten(Tail(ss))

\* keys of map_fit_ind: the distinct fitnesses, in order of first occurrence
RECURSIVE FitKeys(_)
FitKeys(inds) ==
  IF inds = <<>> THEN <<>>
  ELSE LET rest == FitKeys(SubSeq(inds, 1, Len(inds) - 1))
           f    == inds[Len(inds)].fit
       IN  IF \E j \in 1..Len(rest) : rest[j] = f THEN rest ELSE Append(rest, f)

\* one pass of the inner loop of sortNondominated: every fitness in ds loses
\* one dominator; those left with none form the next front, in that order
RECURSIVE Release(_, _, _)
Release(ds, cnt, acc) ==
  IF ds = <<>> THEN [front |-> acc, cnt |-> cnt]
  ELSE LET d == Head(ds)
           c == cnt[d] - 1
       IN  Release(Tail(ds), [cnt EXCEPT ![d] = c],
                   IF c = 0 THEN Append(acc, d) ELSE acc)

\* fronts of fitness keys, from the current front cf on, until n individuals
\* are covered; size[q] is the number of individuals with fitness q and
\* dominated[p] the fitnesses that p dominates
RECURSIVE FitFronts(_, _, _, _, _, _)
FitFronts(cf, cnt, covered, n, size, dominated) ==
  IF covered >= n THEN <<cf>>
  ELSE LET r   == Release(Flatten([j \in 1..Len(cf) |-> dominated[cf[j]]]), cnt, <<>>)
           add == LET RECURSIVE Sum(_)
                      Sum(q) == IF q = <<>> THEN 0 ELSE size[Head(q)] + Sum(Tail(q))
                  IN  Sum(r.front)
       IN  <<cf>> \o FitFronts(r.front, r.cnt, covered + add, n, size, dominated)

\* the fronts of individuals' indices, from the fronts ff of fitness keys
FrontsOf(ff, members) ==
  [x \in 1..Len(ff) |-> Flatten([j \in 1..Len(ff[x]) |-> members[ff[x][j]]])]

\* the loops of sortNondominated once the first front is known
SortFrom(first, n, members, dominated, cnt) ==
  FrontsOf(FitFronts(first, cnt,
                     Len(Flatten([j \in 1..Len(first) |-> members[first[j]]])), n,
                     [q \in DOMAIN members |-> Len(members[q])], dominated),
           members)

\* the ranking of sortNondominated: members[q] the individuals of fitness q,
\* dominated[p] the fitnesses p dominates, cnt[q] the number dominating q
SortRanked(n, members, dominated, cnt) ==
  SortFrom(Ascending({q \in DOMAIN cnt : cnt[q] = 0}), n, members, dominated, cnt)

SortKeys(inds, n, fits) ==
  SortRanked(n,
    [q \in 1..Len(fits) |-> Ascending({j \in 1..Len(inds) : inds[j].fit = fits[q]})],
    [p \in 1..Len(fits) |-> Ascending({q \in 1..Len(fits) : dominates(fits[p], fits[q])})],
    [q \in 1..Len(fits) |-> Cardinality({p \in 1..Len(fits) : dominates(fits[p], fits[q])})])

\* sortNondominated(individuals, k): the fronts, as sequences of indices into
\* individuals, until min(len, k) individuals are sorted
sortNondominated(inds, k) ==
  IF k = 0 THEN <<>>
  ELSE SortKeys(inds, IF Len(inds) < k THEN Len(inds) ELSE k, FitKeys(inds))

\* crowding distances are exact fractions n/d in lowest terms, or infinite
RECURSIVE GCD(_, _)
GCD(a, b) == IF b = 0 THEN a ELSE GCD(b, a % b)

CdInf == [k |-> "inf", n |-> 1, d |-> 1]
CdFin(n, d) ==
  LET g == GCD(n, d) IN [k |-> "fin", n |-> n \div g, d |-> d \div g]

\* a/b < c/d for non-negative fractions, without forming large products
RECURSIVE FracLess(_, _, _, _)
FracLess(a, b, c, d) ==
  LET qa == a \div b
      qc == c \div d
      ra == a % b
      rc == c % d
  IN  IF qa # qc THEN qa < qc
      ELSE IF rc = 0 THEN FALSE
      ELSE IF ra = 0 THEN TRUE
      ELSE FracLess(d, rc, b, ra)

CdLess(x, y) ==
  IF x.k = "inf" THEN FALSE
  ELSE IF y.k = "inf" THEN TRUE
  ELSE FracLess(x.n, x.d, y.n, y.d)

\* list.sort(key=...): the stable sort of a sequence of indices by key[index]
RECURSIVE StableSort(_, _)
StableSort(order, key) ==
  IF order = <<>> THEN <<>>
  ELSE LET done == StableSort(SubSeq(order, 1, Len(order) - 1), key)
           x    == order[Len(order)]
           pos  == Cardinality({j \in 1..Len(done) : key[done[j]] <= key[x]})
       IN  SubSeq(done, 1, pos) \o <<x>> \o SubSeq(done, pos + 1, Len(done))

\* crowd.sort(key=objective i) applied to the order the last sort left
SortBy(order, fs, i) == StableSort(order, [j \in 1..Len(fs) |-> fs[j][i]])

\* the order of crowd after the sort by each objective in turn
CrowdAfter2(fs, o1, o2) == <<o1, o2, SortBy(o2, fs, 3)>>
CrowdAfter1(fs, o1) == CrowdAfter2(fs, o1, SortBy(o1, fs, 2))
CrowdOrders(fs) == CrowdAfter1(fs, SortBy([j \in 1..Len(fs) |-> j], fs, 1))

\* position of member j in the order by objective i
PlaceOf(crowd, i, j) == CHOOSE p \in 1..Len(crowd[i]) : crowd[i][p] = j

\* the summand of objective i for a member at place p that is no end of any
\* order, as a fraction <<numerator, denominator>>
Share(fs, crowd, i, p) ==
  IF fs[crowd[i][Len(fs)]][i] = fs[crowd[i][1]][i] THEN <<0, 1>>
  ELSE <<fs[crowd[i][p + 1]][i] - fs[crowd[i][p - 1]][i],
         3 * (fs[crowd[i][Len(fs)]][i] - fs[crowd[i][1]][i])>>

\* the sum of three fractions
Sum3(a, b, c) ==
  CdFin(a[1] * b[2] * c[2] + b[1] * a[2] * c[2] + c[1] * a[2] * b[2],
        a[2] * b[2] * c[2])

\* the distances, given the three orders
Distances(fs, crowd) ==
  [j \in 1..Len(fs) |->
     IF \E i \in Objectives : crowd[i][1] = j \/ crowd[i][Len(fs)] = j THEN CdInf
     ELSE Sum3(Share(fs, crowd, 1, PlaceOf(crowd, 1, j)),
               Share(fs, crowd, 2, PlaceOf(crowd, 2, j)),
               Share(fs, crowd, 3, PlaceOf(crowd, 3, j)))]

\* assignCrowdingDist(front): the crowding distance of each member; fs is the
\* sequence of the members' fitness values
assignCrowdingDist(fs) == Distances(fs, CrowdOrders(fs))

\* the members of a front (indices into inds), each with its distance
Attach(inds, front, cd) ==
  [j \in 1..Len(front) |-> [inds[front[j]] EXCEPT !.cd = cd[j]]]

\* assignCrowdingDist on every front
Crowded(inds, fronts) ==
  [x \in 1..Len(fronts) |->
     Attach(inds, fronts[x],
            assignCrowdingDist([j \in 1..Len(fronts[x]) |-> inds[fronts[x][j]].fit]))]

\* sorted(front, key=crowding_dist, reverse=True): stable, largest first
RECURSIVE SortByCdDesc(_)
SortByCdDesc(front) ==
  IF front = <<>> THEN <<>>
  ELSE LET done == SortByCdDesc(SubSeq(front, 1, Len(front) - 1))
           x    == front[Len(front)]
           pos  == Cardinality({j \in 1..Len(done) : ~CdLess(done[j].cd, x.cd)})
       IN  SubSeq(done, 1, pos) \o <<x>> \o SubSeq(done, pos + 1, Len(done))

\* a selection that returns every front sortNondominated gives it, the last
\* one whole
selNSGA2_whole_fronts(inds, k) == Flatten(Crowded(inds, sortNondominated(inds, k)))

\* chosen.extend(sorted_front[:k]) after the fronts before the last
Extend(chosen, k, sorted_front) ==
  chosen \o SubSeq(sorted_front, 1,
                   IF k - Len(chosen) < Len(sorted_front) THEN k - Len(chosen)
                   ELSE Len(sorted_front))

\* whole fronts while they fit, then the least crowded members of the last
Chosen(fronts, k) ==
  Extend(Flatten(SubSeq(fronts, 1, Len(fronts) - 1)), k,
         SortByCdDesc(fronts[Len(fronts)]))

\* selNSGA2(individuals, k); every chosen individual carries the crowding
\* distance just assigned
selNSGA2(inds, k) == Chosen(Crowded(inds, sortNondominated(inds, k)), k)

\* ------------------------------------------------------------------------
\* DEAP: selTournamentDCD, cxBlend, mutGaussian, ParetoFront; clip_params
\* (ga_opt.py 226-233, 261, 266)
\* ------------------------------------------------------------------------
CdNone == [k |-> "none", n |-> 0, d |-> 1]

\* creator.Individual(genes): a list with a fitness that is not valid yet
\* (fit = <<>>).  Bookkeeping for the properties: at = the genes the fitness
\* was computed from, touched = changed by mate/mutate in this generation,
\* evals = evaluations in this generation.
Individual(genes) ==
  [genes |-> genes, fit |-> <<>>, cd |-> CdNone, at |-> <<>>,
   touched |-> FALSE, evals |-> 0]

\* fitness.valid
valid(x) == x.fit # <<>>

\* toolbox.clone for a new generation's offspring
clone(x) == [x EXCEPT !.touched = FALSE, !.evals = 0]

\* the individual marked as changed, its fitness left as it was
Touch(x) == [x EXCEPT !.touched = TRUE]

\* del ind.fitness.values
Invalidate(x) == [x EXCEPT !.fit = <<>>, !.touched = TRUE]

Clip(v, lo, hi) == IF v < lo THEN lo ELSE IF v > hi THEN hi ELSE v

clip_params(x) ==
  [x EXCEPT !.genes = <<Clip(x.genes[1], WN_MIN, WN_MAX),
                        Clip(x.genes[2], WP_MIN, WP_MAX),
                        Clip(x.genes[3], V_MIN, V_MAX)>>]

\* tourn(ind1, ind2) of selTournamentDCD: the winner's index; heads is the
\* outcome of random.random() <= 0.5, used when neither dominance nor
\* crowding decides
Tourn(inds, a, b, heads) ==
  IF dominates(inds[a].fit, inds[b].fit) THEN a
  ELSE IF dominates(inds[b].fit, inds[a].fit) THEN b
  ELSE IF CdLess(inds[a].cd, inds[b].cd) THEN b
  ELSE IF CdLess(inds[b].cd, inds[a].cd) THEN a
  ELSE IF heads THEN a
  ELSE b

\* the orders that random.sample(individuals, 4) is let to return
Shuffles == {<<1, 2, 3, 4>>, <<3, 1, 4, 2>>}

\* the coins that the four tournaments of one call are let to toss
CoinDraws == {<<TRUE, TRUE, TRUE, TRUE>>, <<FALSE, TRUE, TRUE, FALSE>>}

\* selTournamentDCD(individuals, len(individuals)) for four individuals: two
\* independent random orders, two tournaments in each; the possible results
selTournamentDCD(inds) ==
  {<<inds[Tourn(inds, p[1], p[2], c[1])], inds[Tourn(inds, p[3], p[4], c[2])],
     inds[Tourn(inds, q[1], q[2], c[3])], inds[Tourn(inds, q[3], q[4], c[4])]>> :
     p \in Shuffles, q \in Shuffles, c \in CoinDraws}

\* gamma = (1 + 2 * alpha) * random() - alpha with alpha = 0.3 lies in
\* [-0.3, 1.3); in tenths, the gammas drawn for the three genes of a pair
GammaDraws == {<<-3, 5, 12>>, <<5, 5, 5>>}

\* cxBlend on one gene pair
Blend(x1, x2, g) == ((10 - g) * x1 + g * x2) \div 10

\* toolbox.mate(a, b): both individuals changed in place; g[i] is the gamma
\* drawn for gene i
cxBlend(a, b, g) ==
  <<[a EXCEPT !.genes = [i \in 1..3 |-> Blend(a.genes[i], b.genes[i], g[i])]],
    [b EXCEPT !.genes = [i \in 1..3 |-> Blend(b.genes[i], a.genes[i], g[i])]]>>

\* the gauss(0, 0.15) steps that mutGaussian adds to the three genes, on the
\* grid; 0 stands for a gene that indpb leaves alone.  sigma is 0.15 in the
\* genes' own units (metres, volts): far beyond the range of the widths and
\* a few grid steps of Vbias.
NoiseDraws == {<<0, 0, 0>>, <<0, 0, 2>>, <<-150000, 150000, -2>>}

\* toolbox.mutate(ind): the drawn steps added to the genes
mutGaussian(x, dz) ==
  [x EXCEPT !.genes = [i \in 1..3 |-> x.genes[i] + dz[i]]]

\* what the hall of fame keeps of an individual
Entry(x) == [genes |-> x.genes, fit |-> x.fit]

\* tuple comparison of the weighted values (Fitness.__gt__)
FitGreater(f, g) ==
  LET a == wvalues(f)
      b == wvalues(g)
  IN  \/ a[1] > b[1]
      \/ a[1] = b[1] /\ a[2] > b[2]
      \/ a[1] = b[1] /\ a[2] = b[2] /\ a[3] > b[3]

\* the scan of ParetoFront.update over the hall of fame for one individual
RECURSIVE ScanFront(_, _, _, _, _)
ScanFront(hof, x, j, dominates_one, to_remove) ==
  IF j > Len(hof)
    THEN [is_dominated |-> FALSE, has_twin |-> FALSE, to_remove |-> to_remove]
  ELSE IF ~dominates_one /\ dominates(hof[j].fit, x.fit)
    THEN [is_dominated |-> TRUE, has_twin |-> FALSE, to_remove |-> to_remove]
  ELSE IF dominates(x.fit, hof[j].fit)
    THEN ScanFront(hof, x, j + 1, TRUE, to_remove \cup {j})
  ELSE IF x.fit = hof[j].fit /\ x.genes = hof[j].genes
    THEN [is_dominated |-> FALSE, has_twin |-> TRUE, to_remove |-> to_remove]
  ELSE ScanFront(hof, x, j + 1, dominates_one, to_remove)

\* HallOfFame.insert: items are kept in decreasing order of fitness, a new
\* item ahead of the items it ties with
InsertItem(hof, e) ==
  LET pos == Cardinality({j \in 1..Len(hof) : FitGreater(hof[j].fit, e.fit)})
  IN  SubSeq(hof, 1, pos) \o <<e>> \o SubSeq(hof, pos + 1, Len(hof))

UpdateOne(hof, x) ==
  LET r    == ScanFront(hof, x, 1, FALSE, {})
      kept == Ascending({j \in 1..Len(hof) : j \notin r.to_remove})
      rest == [j \in 1..Len(kept) |-> hof[kept[j]]]
  IN  IF ~r.is_dominated /\ ~r.has_twin THEN InsertItem(rest, Entry(x)) ELSE rest

\* ParetoFront.update(population)
RECURSIVE ParetoFrontUpdate(_, _)
ParetoFrontUpdate(hof, population) ==
  IF population = <<>> THEN hof
  ELSE ParetoFrontUpdate(UpdateOne(hof, Head(population)), Tail(population))

\* scalarize(f) = f[0] + 1e-6 * f[1] - 1e3 * f[2]; on the integer grid with
\* 0 <= f[1] < 1e6 the scores order as these pairs do
scalarize(f) == <<f[1] - 1000 * f[3], f[2]>>

ScoreLess(a, b) == a[1] < b[1] \/ (a[1] = b[1] /\ a[2] < b[2])

\* max(pop, key=scalarize): the first individual with the largest score
Best(pop) ==
  LET top == {j \in 1..Len(pop) :
                \A m \in 1..Len(pop) :
                  ~ScoreLess(scalarize(pop[j].fit), scalarize(pop[m].fit))}
  IN  pop[SetMin(top)]

\* ------------------------------------------------------------------------
\* The simulator and its logs (the .meas lines of NETLIST_TMPL, ga_opt.py
\* 54-96, in the form the patterns of MEAS_RE read)
\* ------------------------------------------------------------------------
\* "gain_db: MAX(db(v(out)/v(in)))=("
GainHead ==
  <<"g", "a", "i", "n", "_", "d", "b", ":", " ", "M", "A", "X", "(", "d", "b",
    "(", "v", "(", "o", "u", "t", ")", "/", "v", "(", "i", "n", ")", ")", ")",
    "=", "(">>

\* "GAIN_DB:  max(DB(V(OUT)/V(IN)))=("
GainHeadUpper ==
  <<"G", "A", "I", "N", "_", "D", "B", ":", " ", " ", "m", "a", "x", "(", "D",
    "B", "(", "V", "(", "O", "U", "T", ")", "/", "V", "(", "I", "N", ")", ")",
    ")", "=", "(">>

\* "dB,0)\n"
GainTail == <<"d", "B", ",", "0", ")", "\n">>

GainLine(num) == GainHead \o num \o GainTail
FcLine(num) == <<"f", "c", "=">> \o num \o <<"\n">>
IddLine(num) == <<"I", "d", "d", "=">> \o num \o <<"\n">>

\* "gain_db: FAILED\n" and "Gain_DB: failed\n"
GainFailedLine ==
  <<"g", "a", "i", "n", "_", "d", "b", ":", " ", "F", "A", "I", "L", "E", "D", "\n">>
GainFailedLineMixed ==
  <<"G", "a", "i", "n", "_", "D", "B", ":", " ", "f", "a", "i", "l", "e", "d", "\n">>

\* "Fatal Error: Singular matrix\n" and "unknown MODEL pmos\n"
FatalLine ==
  <<"F", "a", "t", "a", "l", " ", "E", "r", "r", "o", "r", ":", " ", "S", "i",
    "n", "g", "u", "l", "a", "r", " ", "m", "a", "t", "r", "i", "x", "\n">>
FatalLineMixed ==
  <<"u", "n", "k", "n", "o", "w", "n", " ", "M", "O", "D", "E", "L", " ", "p",
    "m", "o", "s", "\n">>

DigitChars == <<"0", "1", "2", "3", "4", "5", "6", "7", "8", "9">>

\* the decimal text of an integer
RECURSIVE FmtNat(_)
FmtNat(n) ==
  IF n < 10 THEN <<DigitChars[n + 1]>>
  ELSE FmtNat(n \div 10) \o <<DigitChars[(n % 10) + 1]>>

Fmt(n) == IF n < 0 THEN <<"-">> \o FmtNat(-n) ELSE FmtNat(n)

\* The log of a run that converges, for a design inside the bounds: a
\* stand-in circuit in which wider PMOS buys gain, bias buys bandwidth and
\* width costs supply current (reported negative, as SPICE does).
SimLog(genes) ==
  GainLine(Fmt(genes[2] - genes[1]))
    \o FcLine(Fmt(genes[3]))
    \o IddLine(Fmt(-((genes[1] + genes[2]) \div 5)))

SimOk(genes) == [proc |-> "exit", log |-> TRUE, txt |-> SimLog(genes)]

\* runs that fail: timeout, executable not found, no log written, a fatal
\* marker in the log, a gain measurement that float() cannot read
SimFaults ==
  { [proc |-> "timeout", log |-> FALSE, txt |-> <<>>],
    [proc |-> "notfound", log |-> FALSE, txt |-> <<>>],
    [proc |-> "exit", log |-> FALSE, txt |-> <<>>],
    [proc |-> "exit", log |-> TRUE, txt |-> FatalLine],
    [proc |-> "exit", log |-> TRUE, txt |-> GainLine(<<"1", "e">>)] }

\* the log lines the evaluation specification combines
EvalLines ==
  { GainLine(<<"1", "0">>),
    GainHeadUpper \o <<"-", "4", "0", "0">> \o GainTail,
    GainLine(<<"1", "e">>),
    GainLine(<<"1", "e", "9", "9", "9">>),
    FcLine(<<"2", "0", "0">>),
    <<"F", "C", " ", " ", "=", " ", " ", "-", "5", "\n">>,
    FcLine(<<".">>),
    IddLine(<<"-", "5", "0", "0">>),
    <<"i", "d", "d", " ", "=", " ", "2", "\n">>,
    IddLine(<<"2", "0", "0", "0">>),
    IddLine(<<"-">>),
    GainFailedLine,
    GainFailedLineMixed,
    FatalLine,
    FatalLineMixed }

RECURSIVE Texts(_)
Texts(n) ==
  IF n = 0 THEN {<<>>}
  ELSE LET shorter == Texts(n - 1)
       IN  shorter \cup {t \o l : t \in shorter, l \in EvalLines}

EvalSims ==
  {[proc |-> "exit", log |-> TRUE, txt |-> t] : t \in Texts(MaxLines)}
    \cup {[proc |-> "timeout", log |-> b, txt |-> <<>>] : b \in BOOLEAN}
    \cup {[proc |-> "notfound", log |-> FALSE, txt |-> <<>>],
          [proc |-> "exit", log |-> FALSE, txt |-> <<>>]}

\* genomes handed to fitness_eval: an anchor, and two that blending can
\* produce (a width below WN_MIN, a bias above V_MAX)
EvalGenomes == {<<5, 10, 15>>, <<-3, 10, 15>>, <<5, 10, 62>>}

\* ------------------------------------------------------------------------
\* State
\* ------------------------------------------------------------------------
VARIABLES
  pc,         \* where main is
  seed,       \* main's seed argument
  pop_size,   \* main's pop_size argument
  gen,        \* the generation loop's counter
  pop,        \* the population
  offspring,  \* the offspring of the current generation
  idx,        \* position of the running for loop in its list
  fits,       \* the fitnesses of the initial population, before assignment
  hof,        \* the ParetoFront
  best,       \* the reported design
  used,       \* chance events so far (crossovers, mutations, failing runs)
  evaluated,  \* history: every individual that was given a fitness
  evalIn,     \* evaluation specification: the genome and the simulator run
  evalOut,    \* evaluation specification: what fitness_eval returned
  parsed      \* evaluation specification: what parse_log returned

vars ==
  <<pc, seed, pop_size, gen, pop, offspring, idx, fits, hof, best, used,
    evaluated, evalIn, evalOut, parsed>>

gaVars ==
  <<pc, seed, pop_size, gen, pop, offspring, idx, fits, hof, best, used,
    evaluated>>

evalVars == <<evalIn, evalOut, parsed>>

ngen == MaxGen

\* pop_size values: 4, and 2, which selTournamentDCD rejects
PopSizes == {2, 4}

\* random.seed(seed) fixes the genomes that toolbox.population draws inside
\* the bounds: the draws of two seeds
Seeds == {1, 2}

RandGenomes ==
  << <<<<4, 30, 40>>, <<20, 6, 12>>, <<12, 40, 33>>, <<6, 22, 48>>>>,
     <<<<17, 9, 21>>, <<4, 30, 40>>, <<4, 30, 40>>, <<9, 50, 10>>>> >>

anchors == <<<<5, 10, 15>>, <<10, 20, 20>>, <<3, 15, 25>>, <<8, 8, 30>>>>

NotCalled == [exc |-> FALSE, fit |-> <<>>, ran |-> FALSE]
NotParsed ==
  [exc |-> FALSE, ok |-> FALSE, reason |-> <<>>,
   gain_db |-> Absent, fc |-> Absent, idd |-> Absent]

NoInput == [ind |-> <<0, 0, 0>>, sim |-> [proc |-> "exit", log |-> FALSE, txt |-> <<>>]]

GaIdle ==
  /\ pc = "start" /\ seed = 1 /\ pop_size = 4 /\ gen = 0 /\ pop = <<>> /\ offspring = <<>>
  /\ idx = 1 /\ fits = <<>> /\ hof = <<>> /\ best = <<>>
  /\ used = 0
  /\ evaluated = {}

EvalIdle == evalIn = NoInput /\ evalOut = NotCalled /\ parsed = NotParsed

\* ------------------------------------------------------------------------
\* main (ga_opt.py 235-300)
\* ------------------------------------------------------------------------
Init ==
  /\ pc = "start"
  /\ seed \in Seeds
  /\ pop_size \in PopSizes
  /\ gen = 0 /\ pop = <<>> /\ offspring = <<>> /\ idx = 1 /\ fits = <<>>
  /\ hof = <<>> /\ best = <<>>
  /\ used = 0
  /\ evaluated = {}
  /\ EvalIdle

\* ind.fitness.values = fit
Assign(x, fit) == [x EXCEPT !.fit = fit, !.at = x.genes, !.evals = @ + 1]

\* the simulator runs that may answer an evaluation of genes
SimRuns(genes) ==
  {SimOk(genes)}
    \cup (IF InBounds(genes) /\ used < MaxEvents THEN SimFaults ELSE {})

Spend(sim) ==
  IF sim \in SimFaults THEN used + 1 ELSE used

\* lines 236-248: random individuals, the anchors appended, all clipped
Populate ==
  /\ pc = "start"
  /\ pop' = [j \in 1..(pop_size + Len(anchors)) |->
               clip_params(Individual(IF j <= pop_size THEN RandGenomes[seed][j]
                                      ELSE anchors[j - pop_size]))]
  /\ pc' = "evaluate0"
  /\ idx' = 1
  /\ fits' = <<>>
  /\ UNCHANGED <<seed, pop_size, gen, offspring, hof, best, used, evaluated>>
  /\ UNCHANGED evalVars

\* line 250, one element of list(map(toolbox.evaluate, pop))
EvaluateInitial ==
  /\ pc = "evaluate0"
  /\ idx <= Len(pop)
  /\ \E sim \in SimRuns(pop[idx].genes) :
       \E r \in {fitness_eval(pop[idx].genes, sim)} :
         /\ used' = Spend(sim)
         /\ IF r.exc
              THEN /\ pc' = "raised"
                   /\ UNCHANGED <<idx, fits, evaluated>>
              ELSE /\ fits' = Append(fits, r.fit)
                   /\ idx' = idx + 1
                   /\ evaluated' = evaluated \cup {[genes |-> pop[idx].genes, fit |-> r.fit]}
                   /\ pc' = pc
  /\ UNCHANGED <<seed, pop_size, gen, pop, offspring, hof, best>>
  /\ UNCHANGED evalVars

\* lines 251-254: the fitnesses assigned, then the first selection
SelectInitial ==
  /\ pc = "evaluate0"
  /\ idx > Len(pop)
  /\ pop' = selNSGA2([j \in 1..Len(pop) |-> Assign(pop[j], fits[j])], pop_size)
  /\ fits' = <<>>
  /\ idx' = 1
  /\ pc' = "record"
  /\ UNCHANGED <<seed, pop_size, gen, offspring, hof, best, used, evaluated>>
  /\ UNCHANGED evalVars

\* lines 286-290 and the loop header: hof.update(pop), next generation
Record ==
  /\ pc = "record"
  /\ hof' = ParetoFrontUpdate(hof, pop)
  /\ IF gen < ngen
       THEN gen' = gen + 1 /\ pc' = "tournament"
       ELSE gen' = gen /\ pc' = "final"
  /\ UNCHANGED <<seed, pop_size, pop, offspring, idx, fits, best, used, evaluated>>
  /\ UNCHANGED evalVars

\* lines 266-267: parents by crowded tournament, cloned
Tournament ==
  /\ pc = "tournament"
  /\ Len(pop) = 4
  /\ \E chosen \in selTournamentDCD(pop) :
       offspring' = [j \in 1..4 |-> clone(chosen[j])]
  /\ idx' = 1
  /\ pc' = "mate"
  /\ UNCHANGED <<seed, pop_size, gen, pop, fits, hof, best, used, evaluated>>
  /\ UNCHANGED evalVars

\* line 266 when len(pop) is no multiple of 4: selTournamentDCD raises
\* ValueError and main ends
TournamentRejects ==
  /\ pc = "tournament"
  /\ Len(pop) % 4 # 0
  /\ pc' = "aborted"
  /\ UNCHANGED <<seed, pop_size, gen, pop, offspring, idx, fits, hof, best, used,
                 evaluated>>
  /\ UNCHANGED evalVars

\* where the crossover loop goes after the pair at idx
AfterPair ==
  IF idx + 2 > Len(offspring)
    THEN idx' = 1 /\ pc' = "mutate"
    ELSE idx' = idx + 2 /\ pc' = pc

\* lines 270-272: random() < cxpb and the pair is complete; mate, then del
\* of both fitnesses
CrossoverPair ==
  /\ pc = "mate"
  /\ idx + 1 <= Len(offspring)
  /\ used < MaxEvents
  /\ \E g \in GammaDraws :
       LET kids == cxBlend(offspring[idx], offspring[idx + 1], g)
       IN  offspring' = [offspring EXCEPT ![idx] = Invalidate(kids[1]),
                                          ![idx + 1] = Invalidate(kids[2])]
  /\ used' = used + 1
  /\ AfterPair
  /\ UNCHANGED <<seed, pop_size, gen, pop, fits, hof, best, evaluated>>
  /\ UNCHANGED evalVars

\* line 270 when the test fails
SkipPair ==
  /\ pc = "mate"
  /\ idx <= Len(offspring)
  /\ AfterPair
  /\ UNCHANGED <<seed, pop_size, gen, pop, offspring, fits, hof, best, used,
                 evaluated>>
  /\ UNCHANGED evalVars

\* where the mutation loop goes after the individual at idx
AfterInd ==
  IF idx + 1 > Len(offspring)
    THEN idx' = 1 /\ pc' = "evaluate"
    ELSE idx' = idx + 1 /\ pc' = pc

\* lines 274-277: random() < mutpb; mutate, clip_params, del of the fitness
MutateInd ==
  /\ pc = "mutate"
  /\ idx <= Len(offspring)
  /\ used < MaxEvents
  /\ \E dz \in NoiseDraws :
       offspring' = [offspring EXCEPT
                       ![idx] = Invalidate(clip_params(mutGaussian(@, dz)))]
  /\ used' = used + 1
  /\ AfterInd
  /\ UNCHANGED <<seed, pop_size, gen, pop, fits, hof, best, evaluated>>
  /\ UNCHANGED evalVars

\* line 274 when the test fails
SkipInd ==
  /\ pc = "mutate"
  /\ idx <= Len(offspring)
  /\ AfterInd
  /\ UNCHANGED <<seed, pop_size, gen, pop, offspring, fits, hof, best, used,
                 evaluated>>
  /\ UNCHANGED evalVars

\* the offspring that line 279 finds invalid and that are not evaluated yet
Invalid == {j \in 1..Len(offspring) : ~valid(offspring[j])}

\* lines 279-282, one element of zip(invalid, fits)
EvaluateOffspring ==
  /\ pc = "evaluate"
  /\ Invalid # {}
  /\ \E j \in {SetMin(Invalid)} :
       \E sim \in SimRuns(offspring[j].genes) :
         \E r \in {fitness_eval(offspring[j].genes, sim)} :
           /\ used' = Spend(sim)
           /\ IF r.exc
                THEN /\ pc' = "raised"
                     /\ UNCHANGED <<offspring, evaluated>>
                ELSE /\ offspring' = [offspring EXCEPT ![j] = Assign(@, r.fit)]
                     /\ evaluated' = evaluated
                          \cup {[genes |-> offspring[j].genes, fit |-> r.fit]}
                     /\ pc' = pc
  /\ UNCHANGED <<seed, pop_size, gen, pop, idx, fits, hof, best>>
  /\ UNCHANGED evalVars

\* the moment line 284 runs
AtReplace == pc = "evaluate" /\ Invalid = {}

\* line 284: pop = toolbox.select(pop + offspring, pop_size)
Replace ==
  /\ AtReplace
  /\ pop' = selNSGA2(pop \o offspring, pop_size)
  /\ offspring' = <<>>
  /\ pc' = "record"
  /\ UNCHANGED <<seed, pop_size, gen, idx, fits, hof, best, used, evaluated>>
  /\ UNCHANGED evalVars

\* lines 292-300: the reported design
Finish ==
  /\ pc = "final"
  /\ best' = Entry(Best(pop))
  /\ pc' = "done"
  /\ UNCHANGED <<seed, pop_size, gen, pop, offspring, idx, fits, hof, used,
                 evaluated>>
  /\ UNCHANGED evalVars

Next ==
  \/ Populate
  \/ EvaluateInitial
  \/ SelectInitial
  \/ Record
  \/ Tournament
  \/ TournamentRejects
  \/ CrossoverPair
  \/ SkipPair
  \/ MutateInd
  \/ SkipInd
  \/ EvaluateOffspring
  \/ Replace
  \/ Finish

Spec == Init /\ [][Next]_vars

\* ------------------------------------------------------------------------
\* fitness_eval and parse_log on their own, over every bounded input
\* ------------------------------------------------------------------------
InitEval ==
  /\ GaIdle
  /\ evalIn \in [ind : EvalGenomes, sim : EvalSims]
  /\ evalOut = NotCalled
  /\ parsed = NotParsed

CallFitnessEval ==
  /\ evalOut = NotCalled
  /\ evalOut' = fitness_eval(evalIn.ind, evalIn.sim)
  /\ UNCHANGED <<evalIn, parsed>>
  /\ UNCHANGED gaVars

CallParseLog ==
  /\ parsed = NotParsed
  /\ parsed' = parse_log(evalIn.sim.log, evalIn.sim.txt)
  /\ UNCHANGED <<evalIn, evalOut>>
  /\ UNCHANGED gaVars

NextEval == CallFitnessEval \/ CallParseLog

SpecEval == InitEval /\ [][NextEval]_vars


\* ------------------------------------------------------------------------
\* Properties of fitness_eval and parse_log (checked under SpecEval)
\* ------------------------------------------------------------------------
\* fitness_eval and parse_log have both answered the input
Called == evalOut # NotCalled
ParsedLog == parsed # NotParsed

\* the run ended without a usable log: TIMEOUT, NOT_FOUND, RC=<code>, or the
\* log file missing
RunFailed ==
  \/ evalIn.sim.proc \in {"timeout", "notfound"}
  \/ ~evalIn.sim.log

\* parse_log answered ok=False, or ok=True without the gain measurement
ParseFailed ==
  /\ ParsedLog
  /\ ~parsed.exc
  /\ ~parsed.ok \/ parsed.gain_db = Absent

C5_SentinelIsWorst ==
  (Called /\ ~evalOut.exc) =>
    /\ evalOut.fit[1] >= SENTINEL[1]
    /\ evalOut.fit[2] >= SENTINEL[2]
    /\ evalOut.fit[3] <= SENTINEL[3]
    /\ ~dominates(SENTINEL, evalOut.fit)
    /\ evalOut.fit = SENTINEL \/ dominates(evalOut.fit, SENTINEL)

\* some gene of the genome lies outside its declared bound
SomeGeneOutside(g) ==
  \/ g[1] < WN_MIN \/ g[1] > WN_MAX
  \/ g[2] < WP_MIN \/ g[2] > WP_MAX
  \/ g[3] < V_MIN \/ g[3] > V_MAX

\* C7: for a genome with a gene outside its bound, fitness_eval returns the
\* sentinel directly and run_ltspice is never called for it.
C7_OutOfBoundsNeverSimulated ==
  (Called /\ SomeGeneOutside(evalIn.ind)) => evalOut = Returned(SENTINEL, FALSE)

\* only Vbias is outside, and the simulator would have answered with a log
\* that parses to a gain
C7_Witness ==
  /\ Called /\ ParsedLog
  /\ evalIn.ind = <<5, 10, 62>>
  /\ ~RunFailed /\ ~parsed.exc /\ parsed.ok /\ parsed.gain_db = Fin(10)
  /\ ~evalOut.ran

\* the markers of FATAL_MARKERS that occur in txt, letter case ignored
MarkersIn(txt) ==
  {m \in 1..Len(FATAL_MARKERS) :
     \E i \in 1..Len(txt) : MatchLit(txt, i, FATAL_MARKERS[m])}

\* txt holds a well-formed GAIN_DB measurement line
HasGainLine(txt) == \E i \in 1..Len(txt) : MatchLit(txt, i, GainLine(<<"1", "0">>))

\* C8: for a log text that contains a fatal marker anywhere, in any letter
\* case, parse_log returns ok=False with that marker (the first of
\* FATAL_MARKERS the text contains) as the reason, whatever well-formed
\* measurement lines the text also contains.
C8_FatalMarkerFails ==
  (ParsedLog /\ evalIn.sim.log /\ MarkersIn(evalIn.sim.txt) # {}) =>
    /\ ~parsed.exc
    /\ ~parsed.ok
    /\ parsed.reason = FATAL_MARKERS[SetMin(MarkersIn(evalIn.sim.txt))]
    /\ parsed.gain_db = Absent

\* "unknown MODEL pmos" next to a well-formed gain line
C8_Witness ==
  /\ ParsedLog /\ evalIn.sim.log
  /\ HasGainLine(evalIn.sim.txt)
  /\ MarkersIn(evalIn.sim.txt) = {6}
  /\ ~parsed.ok /\ parsed.reason = FATAL_MARKERS[6]

\* the log flags the gain measurement as failed: "gain_db: FAILED" in any
\* letter case
GainFlaggedFailed(txt) == \E i \in 1..Len(txt) : MatchLit(txt, i, NeedleGainFailed)

\* C9: for a log text without a fatal marker in which the gain measurement is
\* flagged "gain_db: FAILED" (any letter case), parse_log returns ok=False with
\* the measurement-FAILED reason, even if a numeric gain is matched elsewhere.
C9_FailedFlagFails ==
  (/\ ParsedLog /\ evalIn.sim.log
   /\ MarkersIn(evalIn.sim.txt) = {}
   /\ GainFlaggedFailed(evalIn.sim.txt)
   /\ ~parsed.exc) =>
    ~parsed.ok /\ parsed.reason = ReasonGainFailed

\* ------------------------------------------------------------------------
\* Properties of main's generation loop (checked under Spec)
\* ------------------------------------------------------------------------
Members(q) == {q[j] : j \in 1..Len(q)}

\* C1: after crossover and/or mutation every gene of every offspring lies
\* within its declared bound when the offspring is evaluated and when it
\* enters replacement selection; hence every individual of every generation's
\* population is within bounds.
C1_GenesWithinBounds ==
  /\ pc = "evaluate" => \A x \in Members(offspring) : ~SomeGeneOutside(x.genes)
  /\ \A x \in Members(pop) : ~SomeGeneOutside(x.genes)

\* the first selection is done
Selected == pc \notin {"start", "evaluate0", "raised"}

\* C2: after the first selection trims the pop_size random individuals plus
\* the 4 anchors, the population has exactly pop_size individuals at the
\* start and at the end of every generation: selNSGA2 over parents and
\* offspring never grows or shrinks it.
C2_PopulationSizeKept ==
  /\ pc = "evaluate0" => Len(pop) = pop_size + Len(anchors)
  /\ Selected => Len(pop) = pop_size
  /\ AtReplace => Len(pop \o offspring) = 2 * pop_size

\* generation 1 ends with an individual in the population that variation made
C2_Witness ==
  /\ pc = "record" /\ gen = 1
  /\ Len(pop) = pop_size
  /\ \E x \in Members(pop) :
       /\ x.genes \notin Members(anchors)
       /\ x.genes \notin Members(RandGenomes[seed])

\* C3: no evaluation failure (timeout, executable not found, log not created,
\* fatal marker, missing or unparsable measurement) propagates out of
\* fitness_eval to main.
C3_NoFailureReachesMain == pc # "raised"

\* the members of S that no member of S dominates
NonDominated(S) == {x \in S : \A y \in S : ~dominates(y.fit, x.fit)}

\* C6: after each hof.update(pop) the front is the non-dominated subset of all
\* individuals evaluated so far, those discarded by selection included: no
\* front member is dominated by an evaluated individual, and every evaluated
\* individual that none dominates is represented in the front.
C6_FrontOfAllEvaluated ==
  pc \in {"tournament", "final"} =>
    /\ \A h \in Members(hof) : \A y \in evaluated : ~dominates(y.fit, h.fit)
    /\ \A x \in NonDominated(evaluated) : \E h \in Members(hof) : h.fit = x.fit

\* the fitness of x is valid and is an evaluation of the genes x has now
Fresh(x) ==
  /\ valid(x)
  /\ x.at = x.genes
  /\ Entry(x) \in evaluated

\* C10: in every generation an offspring touched by crossover or mutation has
\* its fitness invalidated and is evaluated exactly once before replacement;
\* an offspring touched by neither keeps its parent's fitness and is not
\* evaluated again; so when select(pop + offspring, pop_size) runs every
\* individual has a valid fitness that is the evaluation of its genes.
C10_TouchedEvaluatedOnce ==
  /\ pc \in {"mate", "mutate", "evaluate"} =>
       \A x \in Members(offspring) :
         /\ x.touched /\ x.evals = 0 => ~valid(x)
         /\ x.touched /\ x.evals # 0 => x.evals = 1 /\ Fresh(x)
         /\ ~x.touched => /\ x.evals = 0
                          /\ \E y \in Members(pop) : Entry(y) = Entry(x)
  /\ AtReplace =>
       /\ \A x \in Members(pop \o offspring) : Fresh(x)
       /\ \A x \in Members(offspring) : x.touched => x.evals = 1

\* select is about to run over an offspring that variation changed and that
\* was evaluated, and one that was left alone
C10_Witness ==
  /\ AtReplace
  /\ \E x \in Members(offspring) :
       /\ x.touched /\ x.evals = 1
       /\ \A y \in Members(pop) : y.genes # x.genes
  /\ \E x \in Members(offspring) : ~x.touched /\ x.evals = 0

====
